---------------------------- MODULE Spec2Model ----------------------------
(***************************************************************************)
(* Profile calculator: the dimension validator (ProfileValidator), the     *)
(* profile registry (profiles.js) and the geometry engine                  *)
(* (ProfileCalculator), modelled as a caller that submits one              *)
(* (type, dimensions) input and invokes the operations on it; and the      *)
(* modules around them, each called on its own: the unit converter, the    *)
(* configuration manager, the component store and the event bus.           *)
(***************************************************************************)
EXTENDS Integers, Sequences, FiniteSets, TLC

(***************************************************************************)
(* JavaScript values.  A value is a record with a kind k:                  *)
(*   "finite"     the number num/den * pi^pi (den > 0, lowest terms);      *)
(*   "NaN", "Infinity", "-Infinity"   the other values of typeof 'number'; *)
(*   "string"     the non-numeric string 'abc';                            *)
(*   "undefined"  the value of a property that is absent;                  *)
(*   "root"       the square root of num/den * pi^pi (see MathSqrt).       *)
(* Finite numbers are exact rationals: for the small dimensions drawn here *)
(* every intermediate result of the code is exactly representable as a     *)
(* double, so the double arithmetic of the code coincides with exact       *)
(* arithmetic.                                                             *)
(***************************************************************************)
Abs(i) == IF i < 0 THEN -i ELSE i

RECURSIVE Gcd(_, _)
Gcd(a, b) == IF b = 0 THEN a ELSE Gcd(b, a % b)

Special(kind) == [k |-> kind, num |-> 0, den |-> 1, pi |-> 0]

NaN == Special("NaN")

Infinity == Special("Infinity")

NegInfinity == Special("-Infinity")

Undefined == Special("undefined")

Str == Special("string")

\* the finite number n/d * pi^p, in lowest terms with a positive denominator
RatPi(n, d, p) ==
    LET g == Gcd(Abs(n), Abs(d))
        s == IF d < 0 THEN -1 ELSE 1
    IN  [k |-> "finite", num |-> s * (n \div g), den |-> s * (d \div g),
         pi |-> IF n = 0 THEN 0 ELSE p]

Rat(n, d) == RatPi(n, d, 0)

Num(n) == Rat(n, 1)

\* typeof v === 'number'
TypeofNumber(v) == v.k \in {"finite", "NaN", "Infinity", "-Infinity"}

\* the implicit ToNumber conversion of an arithmetic or relational operand
ToNumber(v) == IF TypeofNumber(v) THEN v ELSE NaN

\* -1, 0 or 1 for a number that is not NaN
Sign(v) ==
    CASE v.k = "Infinity" -> 1
      [] v.k = "-Infinity" -> -1
      [] OTHER -> IF v.num > 0 THEN 1 ELSE IF v.num < 0 THEN -1 ELSE 0

SignedInfinity(s) == IF s > 0 THEN Infinity ELSE NegInfinity

JsNeg(a) ==
    LET x == ToNumber(a)
    IN  CASE x.k = "NaN" -> NaN
          [] x.k = "Infinity" -> NegInfinity
          [] x.k = "-Infinity" -> Infinity
          [] OTHER -> RatPi(-x.num, x.den, x.pi)

\* a + b on numbers (operands of the same power of pi)
JsAdd(a, b) ==
    LET x == ToNumber(a)
        y == ToNumber(b)
    IN  CASE x.k = "NaN" \/ y.k = "NaN" -> NaN
          [] x.k # "finite" /\ y.k # "finite" -> IF x.k = y.k THEN x ELSE NaN
          [] x.k # "finite" -> x
          [] y.k # "finite" -> y
          [] OTHER -> RatPi(x.num * y.den + y.num * x.den, x.den * y.den,
                            IF x.num = 0 THEN y.pi ELSE x.pi)

JsSub(a, b) == JsAdd(a, JsNeg(b))

JsMul(a, b) ==
    LET x == ToNumber(a)
        y == ToNumber(b)
    IN  CASE x.k = "NaN" \/ y.k = "NaN" -> NaN
          [] x.k # "finite" \/ y.k # "finite" ->
                IF Sign(x) * Sign(y) = 0 THEN NaN
                ELSE SignedInfinity(Sign(x) * Sign(y))
          [] OTHER -> RatPi(x.num * y.num, x.den * y.den, x.pi + y.pi)

JsDiv(a, b) ==
    LET x == ToNumber(a)
        y == ToNumber(b)
    IN  CASE x.k = "NaN" \/ y.k = "NaN" -> NaN
          [] x.k # "finite" /\ y.k # "finite" -> NaN
          [] x.k # "finite" ->
                SignedInfinity(Sign(x) * (IF Sign(y) < 0 THEN -1 ELSE 1))
          [] y.k # "finite" -> Num(0)
          [] y.num = 0 ->
                IF x.num = 0 THEN NaN ELSE SignedInfinity(Sign(x))
          [] OTHER -> RatPi(x.num * y.den, x.den * y.num, x.pi - y.pi)

\* a < b; false when either operand converts to NaN
JsLt(a, b) ==
    LET x == ToNumber(a)
        y == ToNumber(b)
    IN  CASE x.k = "NaN" \/ y.k = "NaN" -> FALSE
          [] x.k = "Infinity" -> FALSE
          [] y.k = "-Infinity" -> FALSE
          [] x.k = "-Infinity" -> TRUE
          [] y.k = "Infinity" -> TRUE
          [] OTHER -> x.num * y.den < y.num * x.den

JsEq(a, b) ==
    LET x == ToNumber(a)
        y == ToNumber(b)
    IN  x.k # "NaN" /\ y.k # "NaN" /\ x = y

JsLe(a, b) == JsLt(a, b) \/ JsEq(a, b)

JsGe(a, b) == JsLe(b, a)

\* Math.min(a, b)
MathMin(a, b) ==
    LET x == ToNumber(a)
        y == ToNumber(b)
    IN  IF x.k = "NaN" \/ y.k = "NaN" THEN NaN
        ELSE IF JsLt(y, x) THEN y ELSE x

\* Math.PI
MathPI == RatPi(1, 1, 1)

(***************************************************************************)
(* Profile registry (profileTypes.js / profiles.js).                       *)
(***************************************************************************)
\* the ProfileType object: its own keys and their values
ProfileType ==
    [ROUND_TUBE |-> "round_tube", SQUARE_TUBE |-> "square_tube",
     RECTANGULAR_TUBE |-> "rectangular_tube", ANGLE |-> "angle",
     CHANNEL |-> "channel", I_BEAM |-> "i_beam"]

\* Object.values(ProfileType)
ProfileTypeValues == {ProfileType[key] : key \in DOMAIN ProfileType}

RequiredDimensions ==
    [round_tube |-> <<"diameter", "thickness", "length">>,
     square_tube |-> <<"width", "thickness", "length">>,
     rectangular_tube |-> <<"width", "height", "thickness", "length">>,
     angle |-> <<"width", "height", "thickness", "length">>,
     channel |-> <<"width", "height", "thickness", "length", "flange_width">>,
     i_beam |-> <<"width", "height", "web_thickness", "flange_thickness",
                  "length">>]

OptionalDimensions ==
    [round_tube |-> <<"outer_radius">>,
     square_tube |-> <<"outer_radius", "inner_radius">>,
     rectangular_tube |-> <<"outer_radius", "inner_radius">>,
     angle |-> <<"inner_radius", "toe_radius">>,
     channel |-> <<"root_radius", "toe_radius">>,
     i_beam |-> <<"root_radius", "toe_radius", "k_dimension">>]

\* DimensionValidation of profiles.js: the {min, max} range per dimension name
DimensionValidation ==
    [length |-> [min |-> Num(1), max |-> Num(1000000)],
     thickness |-> [min |-> Rat(1, 10), max |-> Num(100)],
     diameter |-> [min |-> Num(1), max |-> Num(1000)],
     width |-> [min |-> Num(1), max |-> Num(1000)],
     height |-> [min |-> Num(1), max |-> Num(2000)],
     flange_width |-> [min |-> Num(1), max |-> Num(500)],
     web_thickness |-> [min |-> Rat(1, 10), max |-> Num(100)],
     flange_thickness |-> [min |-> Rat(1, 10), max |-> Num(100)],
     outer_radius |-> [min |-> Num(0), max |-> Num(100)],
     inner_radius |-> [min |-> Num(0), max |-> Num(50)],
     toe_radius |-> [min |-> Num(0), max |-> Num(50)],
     root_radius |-> [min |-> Num(0), max |-> Num(50)],
     k_dimension |-> [min |-> Num(0), max |-> Num(100)]]

\* property names every object literal inherits from Object.prototype
ObjectPrototype == {"toString", "constructor"}

\* obj[key] is truthy: an own property (a non-empty string or an array) or
\* an inherited one (a function)
Truthy(obj, key) == key \in DOMAIN obj \/ key \in ObjectPrototype

\* obj[key] can be iterated by for..of: an own property of a table of arrays
Iterable(obj, key) == key \in DOMAIN obj

\* dimensions[name]; undefined when the property is absent
Get(dimensions, name) ==
    IF name \in DOMAIN dimensions THEN dimensions[name] ELSE Undefined

\* ProfileValidation of profiles.js: the check of the rule registered for the
\* type (no rule for channel and i_beam)
ProfileValidation(type, dimensions) ==
    CASE type = ProfileType.ROUND_TUBE ->
            JsLt(Get(dimensions, "thickness"),
                 JsDiv(Get(dimensions, "diameter"), Num(2)))
      [] type = ProfileType.SQUARE_TUBE ->
            JsLt(Get(dimensions, "thickness"),
                 JsDiv(Get(dimensions, "width"), Num(2)))
      [] type = ProfileType.RECTANGULAR_TUBE ->
            JsLt(Get(dimensions, "thickness"),
                 JsDiv(MathMin(Get(dimensions, "width"),
                               Get(dimensions, "height")), Num(2)))
      [] type = ProfileType.ANGLE ->
            JsLt(Get(dimensions, "thickness"),
                 MathMin(Get(dimensions, "width"), Get(dimensions, "height")))
      [] OTHER -> TRUE

(***************************************************************************)
(* Dimension validator (ProfileValidator.validateDimensions).              *)
(* A validation outcome is "returned" with the ValidationResult, or the    *)
(* name of the exception that left the call.                               *)
(***************************************************************************)
Message(text, arg) == [msg |-> text, arg |-> arg]

NewResult ==
    [outcome |-> "returned", isValid |-> TRUE, errors |-> <<>>,
     warnings |-> <<>>]

AddError(result, e) ==
    [result EXCEPT !.isValid = FALSE, !.errors = Append(@, e)]

AddWarning(result, w) == [result EXCEPT !.warnings = Append(@, w)]

Thrown(exception) ==
    [outcome |-> exception, isValid |-> FALSE, errors |-> <<>>,
     warnings |-> <<>>]

\* the loop over the required dimensions
RECURSIVE checkRequired(_, _, _)
checkRequired(result, required, dimensions) ==
    IF required = <<>> THEN result
    ELSE LET dim == Head(required)
             next ==
                 IF dim \notin DOMAIN dimensions
                 THEN AddError(result,
                               Message("Missing required dimension", dim))
                 ELSE IF ~TypeofNumber(dimensions[dim])
                         \/ JsLe(dimensions[dim], Num(0))
                 THEN AddError(result,
                               Message("Invalid value: must be a positive number",
                                       dim))
                 ELSE result
         IN  checkRequired(next, Tail(required), dimensions)

\* the loop over the optional dimensions
RECURSIVE checkOptional(_, _, _)
checkOptional(result, optional, dimensions) ==
    IF optional = <<>> THEN result
    ELSE LET dim == Head(optional)
             next ==
                 IF dim \in DOMAIN dimensions
                    /\ (~TypeofNumber(dimensions[dim])
                        \/ JsLt(dimensions[dim], Num(0)))
                 THEN AddWarning(result,
                          Message("Invalid value for optional dimension: must be a non-negative number",
                                  dim))
                 ELSE result
         IN  checkOptional(next, Tail(optional), dimensions)

\* the switch over the profile type
checkProfileSpecific(result, type, dimensions) ==
    CASE type = ProfileType.ROUND_TUBE ->
            IF JsGe(Get(dimensions, "thickness"),
                    JsDiv(Get(dimensions, "diameter"), Num(2)))
            THEN AddError(result,
                          Message("Thickness must be less than radius", ""))
            ELSE result
      [] type \in {ProfileType.SQUARE_TUBE, ProfileType.RECTANGULAR_TUBE} ->
            IF JsGe(Get(dimensions, "thickness"),
                    JsDiv(MathMin(Get(dimensions, "width"),
                                  Get(dimensions, "height")), Num(2)))
            THEN AddError(result,
                          Message("Thickness must be less than half of the smallest dimension",
                                  ""))
            ELSE result
      [] type = ProfileType.ANGLE ->
            IF JsGe(Get(dimensions, "thickness"),
                    MathMin(Get(dimensions, "width"),
                            Get(dimensions, "height")))
            THEN AddError(result,
                          Message("Thickness must be less than width and height",
                                  ""))
            ELSE result
      [] OTHER -> result

\* the body of validateDimensions after the check of the type
checkDimensions(type, dimensions) ==
    IF ~Iterable(RequiredDimensions, type) \/ ~Iterable(OptionalDimensions, type)
    THEN Thrown("TypeError")
    ELSE checkProfileSpecific(
             checkOptional(
                 checkRequired(NewResult, RequiredDimensions[type], dimensions),
                 OptionalDimensions[type], dimensions),
             type, dimensions)

InvalidType(type) ==
    AddError(NewResult, Message("Invalid profile type", type))

\* ProfileValidator.validateDimensions of profileTypes.js: the type is looked
\* up as a key of ProfileType
validateDimensions(type, dimensions) ==
    IF ~Truthy(ProfileType, type) THEN InvalidType(type)
    ELSE checkDimensions(type, dimensions)

\* the copy of validateDimensions that the test page defines and tests: the
\* type is looked up among the values of ProfileType
testValidateDimensions(type, dimensions) ==
    IF type \notin ProfileTypeValues THEN InvalidType(type)
    ELSE checkDimensions(type, dimensions)

(***************************************************************************)
(* Profile calculator (ProfileCalculator).  A calculation outcome is       *)
(* "returned" with the number, or "Error" when the call threw              *)
(* 'Unsupported profile type'.                                             *)
(***************************************************************************)
Returned(v) == [outcome |-> "returned", value |-> v]

Unsupported == [outcome |-> "Error", value |-> Undefined]

\* a calculateArea that counts one flange of a channel
calculateAreaOneFlange(type, dimensions) ==
    CASE type = ProfileType.ROUND_TUBE ->
            LET outerRadius == JsDiv(Get(dimensions, "diameter"), Num(2))
                innerRadius == JsSub(outerRadius, Get(dimensions, "thickness"))
            IN  Returned(JsMul(MathPI,
                               JsSub(JsMul(outerRadius, outerRadius),
                                     JsMul(innerRadius, innerRadius))))
      [] type = ProfileType.SQUARE_TUBE ->
            LET width == Get(dimensions, "width")
                side == JsSub(width, JsMul(Num(2), Get(dimensions, "thickness")))
                outer == JsMul(width, width)
                inner == JsMul(side, side)
            IN  Returned(JsSub(outer, inner))
      [] type = ProfileType.RECTANGULAR_TUBE ->
            LET width == Get(dimensions, "width")
                height == Get(dimensions, "height")
                twice == JsMul(Num(2), Get(dimensions, "thickness"))
                outer == JsMul(width, height)
                inner == JsMul(JsSub(width, twice), JsSub(height, twice))
            IN  Returned(JsSub(outer, inner))
      [] type = ProfileType.ANGLE ->
            Returned(JsMul(JsSub(JsAdd(Get(dimensions, "width"),
                                       Get(dimensions, "height")),
                                 Get(dimensions, "thickness")),
                           Get(dimensions, "thickness")))
      [] type = ProfileType.CHANNEL ->
            Returned(JsAdd(JsMul(Get(dimensions, "height"),
                                 Get(dimensions, "thickness")),
                           JsMul(Get(dimensions, "flange_width"),
                                 Get(dimensions, "thickness"))))
      [] type = ProfileType.I_BEAM ->
            Returned(JsAdd(JsMul(Get(dimensions, "height"),
                                 Get(dimensions, "web_thickness")),
                           JsMul(JsMul(Num(2), Get(dimensions, "width")),
                                 Get(dimensions, "flange_thickness"))))
      [] OTHER -> Unsupported

calculateArea(type, dimensions) ==
    CASE type = ProfileType.ROUND_TUBE ->
            LET outerRadius == JsDiv(Get(dimensions, "diameter"), Num(2))
                innerRadius == JsSub(outerRadius, Get(dimensions, "thickness"))
            IN  Returned(JsMul(MathPI,
                               JsSub(JsMul(outerRadius, outerRadius),
                                     JsMul(innerRadius, innerRadius))))
      [] type = ProfileType.SQUARE_TUBE ->
            LET width == Get(dimensions, "width")
                side == JsSub(width, JsMul(Num(2), Get(dimensions, "thickness")))
                outer == JsMul(width, width)
                inner == JsMul(side, side)
            IN  Returned(JsSub(outer, inner))
      [] type = ProfileType.RECTANGULAR_TUBE ->
            LET width == Get(dimensions, "width")
                height == Get(dimensions, "height")
                twice == JsMul(Num(2), Get(dimensions, "thickness"))
                outer == JsMul(width, height)
                inner == JsMul(JsSub(width, twice), JsSub(height, twice))
            IN  Returned(JsSub(outer, inner))
      [] type = ProfileType.ANGLE ->
            Returned(JsMul(JsSub(JsAdd(Get(dimensions, "width"),
                                       Get(dimensions, "height")),
                                 Get(dimensions, "thickness")),
                           Get(dimensions, "thickness")))
      [] type = ProfileType.CHANNEL ->
            Returned(JsAdd(JsMul(Get(dimensions, "height"),
                                 Get(dimensions, "thickness")),
                           JsMul(JsMul(Num(2), Get(dimensions, "flange_width")),
                                 Get(dimensions, "thickness"))))
      [] type = ProfileType.I_BEAM ->
            Returned(JsAdd(JsMul(Get(dimensions, "height"),
                                 Get(dimensions, "web_thickness")),
                           JsMul(JsMul(Num(2), Get(dimensions, "width")),
                                 Get(dimensions, "flange_thickness"))))
      [] OTHER -> Unsupported

\* a power with one factor less
RECURSIVE MathPowShort(_, _)
MathPowShort(x, n) ==
    IF n <= 2 THEN ToNumber(x) ELSE JsMul(x, MathPowShort(x, n - 1))

\* Math.pow(x, n) for the exponents 2, 3 and 4 the code uses
RECURSIVE MathPow(_, _)
MathPow(x, n) == IF n = 1 THEN ToNumber(x) ELSE JsMul(x, MathPow(x, n - 1))

\* Math.max(a, b)
MathMax(a, b) ==
    LET x == ToNumber(a)
        y == ToNumber(b)
    IN  IF x.k = "NaN" \/ y.k = "NaN" THEN NaN
        ELSE IF JsLt(x, y) THEN y ELSE x

\* the largest r with r * r <= n
IntegerRoot(n) == CHOOSE r \in 0 .. n : r * r <= n /\ n < (r + 1) * (r + 1)

\* Math.sqrt(a).  The root of a rational that is not a perfect square is the
\* value of kind "root": the number sqrt(num/den * pi^pi).  The code only
\* returns it, no arithmetic is applied to it.
MathSqrt(a) ==
    LET x == ToNumber(a)
    IN  CASE x.k = "NaN" \/ x.k = "-Infinity" -> NaN
          [] x.k = "Infinity" -> Infinity
          [] x.num < 0 -> NaN
          [] OTHER ->
                LET n == IntegerRoot(x.num)
                    d == IntegerRoot(x.den)
                IN  IF x.pi = 0 /\ n * n = x.num /\ d * d = x.den
                    THEN Rat(n, d)
                    ELSE [x EXCEPT !.k = "root"]

\* yc of the angle branch of calculateMomentOfInertiaX
yc(type, dimensions) ==
    LET h == Get(dimensions, "height")
        b == Get(dimensions, "width")
        t == Get(dimensions, "thickness")
        A == calculateArea(type, dimensions).value
    IN  JsDiv(JsAdd(JsMul(JsMul(h, t), JsDiv(h, Num(2))),
                    JsDiv(JsMul(JsMul(b, t), t), Num(2))),
              A)

\* the branches of the switch of calculateMomentOfInertiaX
\* a round tube inertia about the axis of the tube (the polar moment)
roundTubeInertiaPolar(dimensions) ==
    LET outerRadius == JsDiv(Get(dimensions, "diameter"), Num(2))
        innerRadius == JsSub(outerRadius, Get(dimensions, "thickness"))
    IN  JsMul(JsDiv(MathPI, Num(2)),
              JsSub(MathPow(outerRadius, 4), MathPow(innerRadius, 4)))

roundTubeInertia(dimensions) ==
    LET outerRadius == JsDiv(Get(dimensions, "diameter"), Num(2))
        innerRadius == JsSub(outerRadius, Get(dimensions, "thickness"))
    IN  JsMul(JsDiv(MathPI, Num(4)),
              JsSub(MathPow(outerRadius, 4), MathPow(innerRadius, 4)))

\* a square tube inertia whose hollow is one wall smaller than the tube
squareTubeInertiaOneWall(dimensions) ==
    LET width == Get(dimensions, "width")
        side == JsSub(width, Get(dimensions, "thickness"))
        outer == JsDiv(MathPow(width, 4), Num(12))
        inner == JsDiv(MathPow(side, 4), Num(12))
    IN  JsSub(outer, inner)

squareTubeInertia(dimensions) ==
    LET width == Get(dimensions, "width")
        side == JsSub(width, JsMul(Num(2), Get(dimensions, "thickness")))
        outer == JsDiv(MathPow(width, 4), Num(12))
        inner == JsDiv(MathPow(side, 4), Num(12))
    IN  JsSub(outer, inner)

rectangularTubeInertia(dimensions) ==
    LET width == Get(dimensions, "width")
        height == Get(dimensions, "height")
        twice == JsMul(Num(2), Get(dimensions, "thickness"))
        outer == JsDiv(JsMul(width, MathPow(height, 3)), Num(12))
        inner == JsDiv(JsMul(JsSub(width, twice),
                             MathPow(JsSub(height, twice), 3)),
                       Num(12))
    IN  JsSub(outer, inner)

angleInertia(type, dimensions) ==
    LET h == Get(dimensions, "height")
        b == Get(dimensions, "width")
        t == Get(dimensions, "thickness")
        y == yc(type, dimensions)
    IN  JsAdd(JsAdd(JsAdd(JsDiv(JsMul(t, MathPow(h, 3)), Num(3)),
                          JsDiv(JsMul(MathPow(t, 3), b), Num(12))),
                    JsMul(JsMul(h, t), MathPow(JsSub(JsDiv(h, Num(2)), y), 2))),
              JsMul(JsMul(b, t), MathPow(JsSub(JsDiv(t, Num(2)), y), 2)))

channelInertia(dimensions) ==
    LET h == Get(dimensions, "height")
        b == Get(dimensions, "flange_width")
        t == Get(dimensions, "thickness")
    IN  JsAdd(JsDiv(JsMul(t, MathPow(h, 3)), Num(12)),
              JsMul(Num(2),
                    JsAdd(JsDiv(JsMul(b, MathPow(t, 3)), Num(12)),
                          JsMul(JsMul(b, t), MathPow(JsDiv(h, Num(2)), 2)))))

\* an I-beam inertia whose web runs over the full height
iBeamInertiaFullWeb(dimensions) ==
    LET h == Get(dimensions, "height")
        b == Get(dimensions, "width")
        tw == Get(dimensions, "web_thickness")
        tf == Get(dimensions, "flange_thickness")
    IN  JsAdd(JsDiv(JsMul(tw, MathPow(h, 3)), Num(12)),
              JsMul(Num(2),
                    JsAdd(JsDiv(JsMul(b, MathPow(tf, 3)), Num(12)),
                          JsMul(JsMul(b, tf),
                                MathPow(JsSub(JsDiv(h, Num(2)),
                                              JsDiv(tf, Num(2))),
                                        2)))))

iBeamInertia(dimensions) ==
    LET h == Get(dimensions, "height")
        b == Get(dimensions, "width")
        tw == Get(dimensions, "web_thickness")
        tf == Get(dimensions, "flange_thickness")
    IN  JsAdd(JsDiv(JsMul(tw, MathPow(JsSub(h, JsMul(Num(2), tf)), 3)),
                    Num(12)),
              JsMul(Num(2),
                    JsAdd(JsDiv(JsMul(b, MathPow(tf, 3)), Num(12)),
                          JsMul(JsMul(b, tf),
                                MathPow(JsSub(JsDiv(h, Num(2)),
                                              JsDiv(tf, Num(2))),
                                        2)))))

calculateMomentOfInertiaX(type, dimensions) ==
    CASE type = ProfileType.ROUND_TUBE -> Returned(roundTubeInertia(dimensions))
      [] type = ProfileType.SQUARE_TUBE ->
            Returned(squareTubeInertia(dimensions))
      [] type = ProfileType.RECTANGULAR_TUBE ->
            Returned(rectangularTubeInertia(dimensions))
      [] type = ProfileType.ANGLE -> Returned(angleInertia(type, dimensions))
      [] type = ProfileType.CHANNEL -> Returned(channelInertia(dimensions))
      [] type = ProfileType.I_BEAM -> Returned(iBeamInertia(dimensions))
      [] OTHER -> Unsupported

\* a yMax whose centroid of an angle is taken over the sum of the two legs
yMaxOverLegs(type, dimensions) ==
    CASE type = ProfileType.ROUND_TUBE ->
            JsDiv(Get(dimensions, "diameter"), Num(2))
      [] type = ProfileType.SQUARE_TUBE ->
            JsDiv(Get(dimensions, "width"), Num(2))
      [] type \in {ProfileType.RECTANGULAR_TUBE, ProfileType.CHANNEL,
                   ProfileType.I_BEAM} ->
            JsDiv(Get(dimensions, "height"), Num(2))
      [] type = ProfileType.ANGLE ->
            LET height == Get(dimensions, "height")
                width == Get(dimensions, "width")
                thickness == Get(dimensions, "thickness")
                A == JsAdd(JsMul(height, thickness), JsMul(width, thickness))
                moment == JsAdd(JsMul(JsMul(height, thickness),
                                      JsDiv(height, Num(2))),
                                JsDiv(JsMul(JsMul(width, thickness), thickness),
                                      Num(2)))
            IN  MathMax(JsSub(height, JsDiv(moment, A)), JsDiv(moment, A))
      [] OTHER -> Undefined

\* yMax of calculateSectionModulusX; Undefined stands for the default branch
yMax(type, dimensions) ==
    CASE type = ProfileType.ROUND_TUBE ->
            JsDiv(Get(dimensions, "diameter"), Num(2))
      [] type = ProfileType.SQUARE_TUBE ->
            JsDiv(Get(dimensions, "width"), Num(2))
      [] type \in {ProfileType.RECTANGULAR_TUBE, ProfileType.CHANNEL,
                   ProfileType.I_BEAM} ->
            JsDiv(Get(dimensions, "height"), Num(2))
      [] type = ProfileType.ANGLE ->
            LET height == Get(dimensions, "height")
                width == Get(dimensions, "width")
                thickness == Get(dimensions, "thickness")
                A == calculateArea(type, dimensions).value
                moment == JsAdd(JsMul(JsMul(height, thickness),
                                      JsDiv(height, Num(2))),
                                JsDiv(JsMul(JsMul(width, thickness), thickness),
                                      Num(2)))
            IN  MathMax(JsSub(height, JsDiv(moment, A)), JsDiv(moment, A))
      [] OTHER -> Undefined

calculateSectionModulusX(type, dimensions) ==
    LET Ix == calculateMomentOfInertiaX(type, dimensions)
    IN  IF Ix.outcome = "Error" THEN Unsupported
        ELSE IF yMax(type, dimensions) = Undefined THEN Unsupported
        ELSE Returned(JsDiv(Ix.value, yMax(type, dimensions)))

\* a calculateWeightPerLength that takes the area of millimetre dimensions
\* in square metres
calculateWeightPerLengthPerMetre(type, dimensions, density) ==
    LET area == calculateArea(type, dimensions)
    IN  IF area.outcome = "Error" THEN Unsupported
        ELSE Returned(JsMul(JsDiv(area.value, Num(1000000)), density))

\* a calculateWeightPerLength that multiplies whatever calculateArea left
calculateWeightPerLengthUnguarded(type, dimensions, density) ==
    Returned(JsMul(calculateArea(type, dimensions).value, density))

calculateWeightPerLength(type, dimensions, density) ==
    LET area == calculateArea(type, dimensions)
    IN  IF area.outcome = "Error" THEN Unsupported
        ELSE Returned(JsMul(area.value, density))

calculateRadiusOfGyration(type, dimensions) ==
    LET area == calculateArea(type, dimensions)
        Ix == calculateMomentOfInertiaX(type, dimensions)
    IN  IF area.outcome = "Error" THEN Unsupported
        ELSE IF Ix.outcome = "Error" THEN Unsupported
        ELSE Returned(MathSqrt(JsDiv(Ix.value, area.value)))

(***************************************************************************)
(* The assertion of the calculator's test page.  assertClose(actual,       *)
(* expected, message) throws when Math.abs(actual - expected) > 0.001.     *)
(* The products it takes to decide that exceed the integers, so they are   *)
(* computed on naturals written in base 10000, least significant digit     *)
(* first.  On the sections of the test page the doubles of the code differ *)
(* from the exact values compared here by rounding errors below 1e-6.      *)
(***************************************************************************)
RECURSIVE Big(_)
Big(n) == IF n = 0 THEN <<>> ELSE <<n % 10000>> \o Big(n \div 10000)

RECURSIVE BigAdd(_, _, _)
BigAdd(a, b, carry) ==
    IF a = <<>> /\ b = <<>> THEN Big(carry)
    ELSE LET sum == (IF a = <<>> THEN 0 ELSE Head(a))
                        + (IF b = <<>> THEN 0 ELSE Head(b)) + carry
         IN  <<sum % 10000>>
                 \o BigAdd(IF a = <<>> THEN <<>> ELSE Tail(a),
                           IF b = <<>> THEN <<>> ELSE Tail(b), sum \div 10000)

BigSum(a, b) == BigAdd(a, b, 0)

\* a times the digit m
RECURSIVE BigScale(_, _, _)
BigScale(a, m, carry) ==
    IF a = <<>> THEN Big(carry)
    ELSE LET product == Head(a) * m + carry
         IN  <<product % 10000>> \o BigScale(Tail(a), m, product \div 10000)

RECURSIVE BigMul(_, _)
BigMul(a, b) ==
    IF a = <<>> \/ b = <<>> THEN <<>>
    ELSE LET low == IF Head(b) = 0 THEN <<>> ELSE BigScale(a, Head(b), 0)
             high == BigMul(a, Tail(b))
         IN  BigSum(low, IF high = <<>> THEN <<>> ELSE <<0>> \o high)

RECURSIVE BigLe(_, _)
BigLe(a, b) ==
    IF Len(a) # Len(b) THEN Len(a) < Len(b)
    ELSE IF a = <<>> THEN TRUE
    ELSE IF a[Len(a)] # b[Len(b)] THEN a[Len(a)] < b[Len(b)]
    ELSE BigLe(SubSeq(a, 1, Len(a) - 1), SubSeq(b, 1, Len(b) - 1))

BigLt(a, b) == ~BigLe(b, a)

\* Math.PI lies strictly between PiLow / PiScale and PiHigh / PiScale
PiLow == <<3589, 9265, 1415, 3>>

PiHigh == <<3590, 9265, 1415, 3>>

PiScale == <<0, 0, 0, 1>>

\* a decimal literal of the test page, units.thousandths
Decimal(units, thousandths) == [units |-> units, thousandths |-> thousandths]

\* 1000 * expected
Thousandths(expected) ==
    BigSum(BigMul(Big(expected.units), Big(1000)), Big(expected.thousandths))

\* bounds of 1000 * factor * actual for a positive finite actual: it lies in
\* [low / den, high / den], or its square does for a root
Enclosure(actual, factor) ==
    LET scaled == BigMul(Big(1000 * factor), Big(actual.num))
    IN  CASE actual.k = "root" ->
                [low |-> BigMul(BigMul(Big(1000 * factor), scaled),
                                IF actual.pi = 1 THEN PiLow ELSE <<1>>),
                 high |-> BigMul(BigMul(Big(1000 * factor), scaled),
                                 IF actual.pi = 1 THEN PiHigh ELSE <<1>>),
                 den |-> BigMul(Big(actual.den),
                                IF actual.pi = 1 THEN PiScale ELSE <<1>>),
                 squared |-> TRUE]
          [] actual.pi = 1 ->
                [low |-> BigMul(scaled, PiLow), high |-> BigMul(scaled, PiHigh),
                 den |-> BigMul(Big(actual.den), PiScale), squared |-> FALSE]
          [] OTHER ->
                [low |-> scaled, high |-> scaled, den |-> Big(actual.den),
                 squared |-> FALSE]

\* (1000 * expected - 1) <= 1000 * factor * actual, on the enclosure e
AboveLow(e, expected, surely) ==
    LET E == Thousandths(expected)
        bound == IF surely THEN e.low ELSE e.high
    IN  IF e.squared
        THEN BigLe(BigSum(BigMul(BigMul(E, E), e.den), e.den),
                   BigSum(bound, BigMul(BigMul(Big(2), E), e.den)))
        ELSE BigLe(BigMul(E, e.den), BigSum(bound, e.den))

\* 1000 * factor * actual <= (1000 * expected + 1), on the enclosure e
BelowHigh(e, expected, surely) ==
    LET E == Thousandths(expected)
        bound == IF surely THEN e.high ELSE e.low
    IN  IF e.squared
        THEN BigLe(bound,
                   BigSum(BigSum(BigMul(BigMul(E, E), e.den),
                                 BigMul(BigMul(Big(2), E), e.den)), e.den))
        ELSE BigLe(bound, BigSum(BigMul(E, e.den), e.den))

\* assertClose(actual * factor, expected, message) returns.  With surely it
\* is true only when the assertion returns for every value of Math.PI
\* between the bounds, without it whenever it returns for some such value.
\* (A NaN passes: Math.abs(NaN - expected) > epsilon is false.)
assertCloseWithin(actual, factor, expected, surely) ==
    LET x == IF actual.k = "root" THEN actual ELSE ToNumber(actual)
    IN  CASE x.k = "NaN" -> TRUE
          [] x.k \in {"Infinity", "-Infinity"} -> FALSE
          [] x.num <= 0 ->
                expected.units = 0 /\ expected.thousandths <= 1 /\ x.num = 0
          [] x.pi \notin {0, 1} -> ~surely
          [] OTHER ->
                /\ AboveLow(Enclosure(x, factor), expected, surely)
                /\ BelowHigh(Enclosure(x, factor), expected, surely)

\* assertClose(actual * factor, expected, message) certainly returns
assertClose(actual, factor, expected) ==
    assertCloseWithin(actual, factor, expected, TRUE)

\* assertClose(actual * factor, expected, message) certainly throws
assertCloseThrows(actual, factor, expected) ==
    ~assertCloseWithin(actual, factor, expected, FALSE)

(***************************************************************************)
(* Inputs.  The caller submits a type string and a dimensions object.      *)
(***************************************************************************)
\* the largest positive dimension drawn, in mm
MaxDim == 3

\* type strings: the six values, the six keys, an unknown name and a name
\* inherited from Object.prototype
TypeInputs ==
    ProfileTypeValues \cup DOMAIN ProfileType \cup {"invalid_type", "toString"}

Range(seq) == {seq[i] : i \in DOMAIN seq}

\* a value above the maximum of every entry of DimensionValidation but length
OverMax == Num(2001)

\* what a required dimension can be instead of a positive number in range
\* (Undefined stands for an absent property)
RequiredFaults ==
    {Undefined, Str, NaN, Infinity, Num(0), Num(-1), OverMax}

\* what a property that is not required can be
OptionalValues == {Num(-1), Num(1), Str}

\* the names a dimensions object for the type may hold besides the required
\* ones: the optional ones and, for a square tube, the height its check reads
OtherNames(type) ==
    Range(OptionalDimensions[type])
        \cup (IF type = ProfileType.SQUARE_TUBE THEN {"height"} ELSE {})

\* the object o with the property name set to v, or deleted for Undefined
With(o, name, v) ==
    IF v = Undefined THEN [n \in DOMAIN o \ {name} |-> o[n]]
    ELSE (name :> v) @@ o

\* well-formed objects: every required dimension a positive number in
\* 1 .. MaxDim (length, which no check or formula reads, is 1)
WellFormed(type) ==
    {("length" :> Num(1)) @@ o :
        o \in [Range(RequiredDimensions[type]) -> {Num(i) : i \in 1 .. MaxDim}]}

\* the objects that differ from one of objs in at most one property
Deviate(type, objs) ==
    objs
    \cup {With(o, name, v) : o \in objs,
              name \in Range(RequiredDimensions[type]), v \in RequiredFaults}
    \cup {With(o, name, v) : o \in objs,
              name \in OtherNames(type), v \in OptionalValues}

\* the objects that differ from a well-formed one in at most two properties
DimensionInputs(type) ==
    IF type \in ProfileTypeValues
    THEN Deviate(type, Deviate(type, WellFormed(type)))
    ELSE {<<>>, [name \in {"diameter", "thickness", "length"} |-> Num(1)]}

\* the sections of the calculator's test page, by profile type
testProfiles ==
    [round_tube |->
        [diameter |-> Num(100), thickness |-> Num(5), length |-> Num(1000)],
     square_tube |->
        [width |-> Num(100), thickness |-> Num(5), length |-> Num(1000)],
     rectangular_tube |->
        [width |-> Num(100), height |-> Num(150), thickness |-> Num(5),
         length |-> Num(1000)],
     angle |->
        [width |-> Num(100), height |-> Num(100), thickness |-> Num(8),
         length |-> Num(1000)],
     channel |->
        [width |-> Num(100), height |-> Num(150), thickness |-> Num(8),
         flange_width |-> Num(50), length |-> Num(1000)],
     i_beam |->
        [width |-> Num(150), height |-> Num(300), web_thickness |-> Num(8),
         flange_thickness |-> Num(12), length |-> Num(1000)]]

\* what the calculator is called on: the section of the test page and the
\* objects that differ from a well-formed one in at most one property.  The
\* calculator has no range check and converts whatever is not a number to
\* NaN, so none above the validator's maxima is drawn, and the absent
\* property and NaN stand for what is not a number.
CalculatorInputs(type) ==
    IF type \in ProfileTypeValues
    THEN {testProfiles[type]}
         \cup {o \in Deviate(type, WellFormed(type)) :
                  \A name \in DOMAIN o : o[name] \notin {OverMax, Str}}
    ELSE DimensionInputs(type)

\* the densities passed to calculateWeightPerLength: the steel of the test
\* page, and none
DensityInputs == {Num(7850), Undefined}

(***************************************************************************)
(* The unit converter (unitConverter.js).  Its factors and the products it *)
(* forms exceed the integers, so a value of the converter is a record with *)
(* a kind k: for "finite" the quotient num / den of two naturals in base   *)
(* 10000 (den not zero, not in lowest terms), negative when neg; "NaN",    *)
(* "Infinity" and "-Infinity" the other numbers; "string" the non-numeric  *)
(* string 'unknown'; "function" a method inherited from Object.prototype;  *)
(* "undefined" the value of an absent property.  The arithmetic is exact.  *)
(***************************************************************************)
Other(kind) == [k |-> kind, neg |-> FALSE, num |-> <<>>, den |-> <<1>>]

Quantity(neg, num, den) ==
    [k |-> "finite", neg |-> neg /\ num # <<>>, num |-> num, den |-> den]

Exact(n) == Quantity(FALSE, Big(n), <<1>>)

\* the natural written with the decimal digits ds
RECURSIVE Natural(_)
Natural(ds) ==
    IF ds = <<>> THEN <<>>
    ELSE BigSum(BigScale(Natural(SubSeq(ds, 1, Len(ds) - 1)), 10, 0),
                Big(ds[Len(ds)]))

RECURSIVE TenTo(_)
TenTo(places) == IF places = 0 THEN <<1>> ELSE BigScale(TenTo(places - 1), 10, 0)

\* the literal with the digits ds, the last `places` of them after the point
Literal(ds, places) == Quantity(FALSE, Natural(ds), TenTo(places))

QNumber(v) == v.k \in {"finite", "NaN", "Infinity", "-Infinity"}

\* the implicit ToNumber conversion of an operand of * and /
QToNumber(v) == IF QNumber(v) THEN v ELSE Other("NaN")

\* -1, 0 or 1 for a number that is not NaN
QSign(v) ==
    CASE v.k = "Infinity" -> 1
      [] v.k = "-Infinity" -> -1
      [] OTHER -> IF v.num = <<>> THEN 0 ELSE IF v.neg THEN -1 ELSE 1

\* a * b
QMul(a, b) ==
    LET x == QToNumber(a)
        y == QToNumber(b)
    IN  CASE x.k = "NaN" \/ y.k = "NaN" -> Other("NaN")
          [] x.k = "finite" /\ y.k = "finite" ->
                Quantity(QSign(x) # QSign(y), BigMul(x.num, y.num),
                         BigMul(x.den, y.den))
          [] QSign(x) = 0 \/ QSign(y) = 0 -> Other("NaN")
          [] OTHER -> Other(IF QSign(x) = QSign(y) THEN "Infinity"
                            ELSE "-Infinity")

\* a / b
QDiv(a, b) ==
    LET x == QToNumber(a)
        y == QToNumber(b)
        infinite == Other(IF (QSign(x) < 0) = (QSign(y) < 0) THEN "Infinity"
                          ELSE "-Infinity")
    IN  CASE x.k = "NaN" \/ y.k = "NaN" -> Other("NaN")
          [] x.k # "finite" /\ y.k # "finite" -> Other("NaN")
          [] x.k # "finite" -> infinite
          [] y.k # "finite" -> Exact(0)
          [] QSign(y) = 0 -> IF QSign(x) = 0 THEN Other("NaN") ELSE infinite
          [] OTHER ->
                Quantity(QSign(x) # QSign(y), BigMul(x.num, y.den),
                         BigMul(x.den, y.num))

\* !v
QFalsy(v) ==
    v.k \in {"undefined", "NaN"} \/ (v.k = "finite" /\ QSign(v) = 0)

UnitType ==
    [LENGTH |-> "length", WEIGHT |-> "weight", AREA |-> "area",
     VOLUME |-> "volume"]

\* Object.values(UnitType)
UnitTypeValues == {UnitType[key] : key \in DOMAIN UnitType}

ConversionFactors ==
    [length |->
        ("mm" :> Literal(<<1>>, 0)) @@ ("cm" :> Literal(<<1, 0>>, 0))
            @@ ("m" :> Literal(<<1, 0, 0, 0>>, 0))
            @@ ("in" :> Literal(<<2, 5, 4>>, 1))
            @@ ("ft" :> Literal(<<3, 0, 4, 8>>, 1)),
     weight |->
        ("kg" :> Literal(<<1>>, 0)) @@ ("g" :> Literal(<<0, 0, 0, 1>>, 3))
            @@ ("lb" :> Literal(<<0, 4, 5, 3, 5, 9, 2, 3, 7>>, 8))
            @@ ("oz" :> Literal(<<0, 0, 2, 8, 3, 4, 9, 5, 2, 3, 1, 2, 5>>, 12)),
     area |->
        ("mm2" :> Literal(<<1>>, 0)) @@ ("cm2" :> Literal(<<1, 0, 0>>, 0))
            @@ ("m2" :> Literal(<<1, 0, 0, 0, 0, 0, 0>>, 0))
            @@ ("in2" :> Literal(<<6, 4, 5, 1, 6>>, 2))
            @@ ("ft2" :> Literal(<<9, 2, 9, 0, 3, 0, 4>>, 2)),
     volume |->
        ("mm3" :> Literal(<<1>>, 0)) @@ ("cm3" :> Literal(<<1, 0, 0, 0>>, 0))
            @@ ("m3" :> Literal(<<1, 0, 0, 0, 0, 0, 0, 0, 0, 0>>, 0))
            @@ ("in3" :> Literal(<<1, 6, 3, 8, 7, 0, 6, 4>>, 3))
            @@ ("ft3" :> Literal(<<2, 8, 3, 1, 6, 8, 4, 6, 5, 9, 2>>, 3))]

\* factors[unit]: the entry of the table, a method of Object.prototype for
\* the names every object inherits, undefined otherwise
Factor(factors, unit) ==
    IF unit \in DOMAIN factors THEN factors[unit]
    ELSE IF unit \in ObjectPrototype THEN Other("function")
    ELSE Other("undefined")

\* throw new Error(message)
Invalid(message) ==
    [outcome |-> "Error", message |-> message, value |-> Other("undefined")]

Converted(v) == [outcome |-> "returned", message |-> "", value |-> v]

\* a convert that multiplies by the factor of the target unit and divides
\* by the factor of the source unit
convertInverted(value, fromUnit, toUnit, type) ==
    IF type \notin UnitTypeValues THEN Invalid("Invalid unit type")
    ELSE LET factors == ConversionFactors[type]
         IN  IF QFalsy(Factor(factors, fromUnit))
                    \/ QFalsy(Factor(factors, toUnit))
             THEN Invalid("Invalid unit conversion")
             ELSE LET baseValue == QMul(value, Factor(factors, toUnit))
                  IN  Converted(QDiv(baseValue, Factor(factors, fromUnit)))

\* UnitConverter.convert(value, fromUnit, toUnit, type)
convert(value, fromUnit, toUnit, type) ==
    IF type \notin UnitTypeValues THEN Invalid("Invalid unit type")
    ELSE LET factors == ConversionFactors[type]
         IN  IF QFalsy(Factor(factors, fromUnit))
                    \/ QFalsy(Factor(factors, toUnit))
             THEN Invalid("Invalid unit conversion")
             ELSE LET baseValue == QMul(value, Factor(factors, fromUnit))
                  IN  Converted(QDiv(baseValue, Factor(factors, toUnit)))

\* the loop of convertDimensions over the entries not yet visited
RECURSIVE convertEntries(_, _, _, _, _)
convertEntries(result, keys, dimensions, fromUnit, toUnit) ==
    IF keys = {} THEN Converted(result)
    ELSE LET key == CHOOSE k \in keys : TRUE
             value == dimensions[key]
             converted == convert(value, fromUnit, toUnit, UnitType.LENGTH)
         IN  IF ~QNumber(value)
             THEN convertEntries((key :> value) @@ result, keys \ {key},
                                 dimensions, fromUnit, toUnit)
             ELSE IF converted.outcome # "returned" THEN converted
             ELSE convertEntries((key :> converted.value) @@ result,
                                 keys \ {key}, dimensions, fromUnit, toUnit)

\* a convertDimensions that writes the converted values into the object it
\* was given and returns it
convertDimensionsInPlace(dimensions, fromUnit, toUnit) ==
    LET result ==
            convertEntries(<<>>, DOMAIN dimensions, dimensions, fromUnit, toUnit)
    IN  [result |-> result,
         dimensions |-> IF result.outcome = "returned" THEN result.value
                        ELSE dimensions]

\* UnitConverter.convertDimensions(dimensions, fromUnit, toUnit): what it
\* returns or throws, and the object it was given as the call leaves it
convertDimensions(dimensions, fromUnit, toUnit) ==
    [result |->
        convertEntries(<<>>, DOMAIN dimensions, dimensions, fromUnit, toUnit),
     dimensions |-> dimensions]

\* the values passed to convert: those of the converter's tests, zero, a
\* negative number, and what is not a finite number
ValueInputs ==
    {Exact(0), Exact(1), Exact(16), Exact(1000), Quantity(TRUE, Big(1), <<1>>),
     Other("NaN"), Other("Infinity"), Other("string"), Other("undefined")}

\* the unit symbols passed: those of the four tables, the symbol of the
\* tests that no table has, and the names every object inherits
UnitInputs ==
    UNION {DOMAIN ConversionFactors[kind] : kind \in UnitTypeValues}
        \cup {"invalid"} \cup ObjectPrototype

\* the unit kinds passed
KindInputs == UnitTypeValues \cup {"invalid", "toString"}

\* the mappings passed to convertDimensions: those of the converter's tests,
\* the empty one, and mappings of one entry
MappingInputs ==
    {[width |-> Exact(100), height |-> Exact(200), thickness |-> Exact(5),
      length |-> Exact(1000)],
     [width |-> Exact(100), height |-> Other("string"),
      thickness |-> Exact(5)],
     <<>>}
        \cup {[width |-> v] : v \in {Exact(1), Other("NaN"), Other("string")}}

(***************************************************************************)
(* The configuration manager (config/index.js).  What its getters return   *)
(* is compared by identity, so an object is known by where it comes from:  *)
(* the objects the manager builds are numbered in the order they are       *)
(* built (built >= 1) and carry the cache key they were built for; an      *)
(* object of a registry module has built = 0 and carries its path.         *)
(***************************************************************************)
\* how many objects the manager builds at most
MaxBuilt == 3

NoObject == [built |-> 0, of |-> "undefined"]

\* the themes of ThemeConfig (ui.js)
ThemeConfig ==
    [light |-> [built |-> 0, of |-> "ThemeConfig.light"],
     dark |-> [built |-> 0, of |-> "ThemeConfig.dark"]]

\* the manager after it built an object for cacheKey and cached it
Cached(manager, cacheKey) ==
    LET object == [built |-> manager.built + 1, of |-> cacheKey]
    IN  [manager |-> [cache |-> (cacheKey :> object) @@ manager.cache,
                      built |-> manager.built + 1],
         value |-> object]

\* a getProfileValidation that builds the object on every call
getProfileValidationUncached(manager, profileType) ==
    Cached(manager, "profile_validation_" \o profileType)

\* ConfigManager.getProfileValidation(profileType): the manager after the
\* call and the object returned
getProfileValidation(manager, profileType) ==
    LET cacheKey == "profile_validation_" \o profileType
    IN  IF cacheKey \in DOMAIN manager.cache
        THEN [manager |-> manager, value |-> manager.cache[cacheKey]]
        ELSE Cached(manager, cacheKey)

\* ConfigManager.getMaterialProperties(materialType, grade)
getMaterialProperties(manager, materialType, grade) ==
    LET cacheKey == "material_properties_" \o materialType \o "_" \o grade
    IN  IF cacheKey \in DOMAIN manager.cache
        THEN [manager |-> manager, value |-> manager.cache[cacheKey]]
        ELSE Cached(manager, cacheKey)

\* ConfigManager.getThemeConfig(theme)
getThemeConfig(manager, theme) ==
    LET cacheKey == "theme_" \o theme
    IN  IF cacheKey \in DOMAIN manager.cache
        THEN [manager |-> manager, value |-> manager.cache[cacheKey]]
        ELSE IF theme \in DOMAIN ThemeConfig
        THEN [manager |->
                 [manager EXCEPT
                     !.cache = (cacheKey :> ThemeConfig[theme]) @@ @],
              value |-> ThemeConfig[theme]]
        ELSE [manager |-> manager, value |-> NoObject]

\* ConfigManager.clearCache()
clearCache(manager) == [manager EXCEPT !.cache = <<>>]

\* the arguments passed to the getters: those of the test page and one
\* that the registries do not have
ConfigArguments ==
    [profileType |-> {"round_tube", "unknown"},
     material |-> {<<"steel", "A36">>, <<"steel", "unknown">>},
     theme |-> {"light", "unknown"}]

(***************************************************************************)
(* The component store (componentStore.js).  A component is a record of    *)
(* the fields that validate() and the store read: id, name, material,      *)
(* profile, quantity, parent ("" for none) and children, the ids of its    *)
(* Set in insertion order.  '' stands for every falsy value of a field.    *)
(***************************************************************************)
\* the ids of arr without repetition, in the order of their first occurrence
RECURSIVE SetOf(_)
SetOf(arr) ==
    IF arr = <<>> THEN <<>>
    ELSE LET front == SetOf(SubSeq(arr, 1, Len(arr) - 1))
             last == arr[Len(arr)]
         IN  IF last \in Range(front) THEN front ELSE Append(front, last)

\* new Component(data)
Component(data) ==
    [id |-> data.id, name |-> data.name, material |-> data.material,
     profile |-> data.profile,
     quantity |-> IF data.quantity = 0 THEN 1 ELSE data.quantity,
     parent |-> data.parent, children |-> SetOf(data.children)]

\* component.validate()
validate(component) ==
    /\ component.name # ""
    /\ component.material # ""
    /\ component.profile # ""
    /\ ~(component.quantity < 1)

\* component.addChild(childId)
addChild(component, childId) ==
    [component EXCEPT !.children = SetOf(Append(@, childId))]

\* component.removeChild(childId)
removeChild(component, childId) ==
    [component EXCEPT !.children = SelectSeq(@, LAMBDA c : c # childId)]

\* ComponentStore.createComponent(data): the Map after the call and what
\* the call returned
createComponent(components, data) ==
    LET component == Component(data)
        stored == (component.id :> component) @@ components
    IN  IF validate(component)
        THEN [components |->
                 IF component.parent # ""
                        /\ component.parent \in DOMAIN stored
                 THEN [stored EXCEPT
                          ![component.parent] = addChild(@, component.id)]
                 ELSE stored,
              outcome |-> "component"]
        ELSE [components |-> components, outcome |-> "null"]

\* ComponentStore.updateComponent(id, updates)
updateComponent(components, id, updates) ==
    IF id \notin DOMAIN components
    THEN [components |-> components, outcome |-> "null"]
    ELSE LET assigned == [components EXCEPT ![id] = updates @@ @]
         IN  [components |-> assigned,
              outcome |-> IF validate(assigned[id]) THEN "component"
                          ELSE "null"]

\* ComponentStore.deleteComponent(id) on the heap h: objects, the component
\* objects by id, and present, the keys of the Map (an object that left the
\* Map is still iterated by the call that holds it).  `active` holds the
\* (id, heap) each call on the stack was entered with: a call entered again
\* as one above it was repeats for ever, until the stack is exhausted and
\* a RangeError reaches the caller.
RECURSIVE deleteComponent(_, _, _)
RECURSIVE forEachChild(_, _, _, _)
deleteComponent(h, id, active) ==
    IF id \notin h.present THEN [heap |-> h, outcome |-> "false"]
    ELSE IF <<id, h>> \in active THEN [heap |-> h, outcome |-> "RangeError"]
    ELSE LET parent == h.objects[id].parent
             detached ==
                 IF parent # "" /\ parent \in h.present
                 THEN [h EXCEPT !.objects[parent] = removeChild(@, id)]
                 ELSE h
             after == forEachChild(detached, id, {}, active \cup {<<id, h>>})
         IN  IF after.outcome = "RangeError" THEN after
             ELSE [heap |-> [after.heap EXCEPT !.present = @ \ {id}],
                   outcome |-> "true"]

\* component.children.forEach(childId => this.deleteComponent(childId)):
\* the iteration of a Set visits, in insertion order, the members it has
\* when it gets to them
forEachChild(h, id, visited, active) ==
    LET pending ==
            SelectSeq(h.objects[id].children, LAMBDA c : c \notin visited)
    IN  IF pending = <<>> THEN [heap |-> h, outcome |-> "done"]
        ELSE LET deleted == deleteComponent(h, Head(pending), active)
             IN  IF deleted.outcome = "RangeError" THEN deleted
                 ELSE forEachChild(deleted.heap, id,
                                   visited \cup {Head(pending)}, active)

\* the ids the callers use
ComponentIds == {"a", "b"}

\* the data passed to createComponent: a material and a profile, a name or
\* none, no parent or one of the ids, and up to one child
ComponentData ==
    {[id |-> id, name |-> name, material |-> "steel", profile |-> "angle",
      quantity |-> 0, parent |-> parent, children |-> children] :
        id \in ComponentIds, name \in {"bracket", ""},
        parent \in ComponentIds \cup {""},
        children \in {<<>>} \cup {<<c>> : c \in ComponentIds}}

\* the updates passed to updateComponent
ComponentUpdates ==
    {[name |-> "plate"], [name |-> ""], [quantity |-> 0], [quantity |-> 2]}

(***************************************************************************)
(* The event bus (events.js).  events is the Map from event names to the   *)
(* Sets of callbacks subscribed, each Set in insertion order.  A callback  *)
(* is known by its name, which says what it does when it is invoked.       *)
(***************************************************************************)
\* two of the event names of Events
Events == [FILE_LOADED |-> "file:loaded", DATA_PROCESSED |-> "data:processed"]

\* the callbacks subscribed: one that returns, one that throws, and one
\* that unsubscribes the first from FILE_LOADED
Callbacks == {"listener", "thrower", "canceller"}

\* EventBus.on(event, callback)
on(events, event, callback) ==
    LET had == IF event \in DOMAIN events THEN events
               ELSE (event :> <<>>) @@ events
    IN  [had EXCEPT ![event] = SetOf(Append(@, callback))]

\* EventBus.off(event, callback), which is also what the function returned
\* by on(event, callback) calls
off(events, event, callback) ==
    IF event \in DOMAIN events
    THEN [events EXCEPT ![event] = SelectSeq(@, LAMBDA c : c # callback)]
    ELSE events

\* callback(data): the Map after the call, and whether the callback threw
invoke(events, callback) ==
    CASE callback = "thrower" -> [events |-> events, threw |-> TRUE]
      [] callback = "canceller" ->
            [events |-> off(events, Events.FILE_LOADED, "listener"),
             threw |-> FALSE]
      [] OTHER -> [events |-> events, threw |-> FALSE]

\* this.events.get(event).forEach(callback => { try { callback(data) }
\* catch (error) { console.error(...) } }): the iteration of a Set visits,
\* in insertion order, the members it has when it gets to them; what a
\* callback throws is caught
RECURSIVE forEachCallback(_, _, _, _)
forEachCallback(events, event, visited, invoked) ==
    LET pending == SelectSeq(events[event], LAMBDA c : c \notin visited)
    IN  IF pending = <<>>
        THEN [events |-> events, invoked |-> invoked, outcome |-> "returned"]
        ELSE forEachCallback(invoke(events, Head(pending)).events, event,
                             visited \cup {Head(pending)},
                             [invoked EXCEPT ![Head(pending)] = @ + 1])

\* EventBus.emit(event, data): the Map after the call, how often each
\* callback was invoked, and how the call ended
emit(events, event) ==
    IF event \in DOMAIN events
    THEN forEachCallback(events, event, {}, [c \in Callbacks |-> 0])
    ELSE [events |-> events, invoked |-> [c \in Callbacks |-> 0],
          outcome |-> "returned"]

(***************************************************************************)
(* State: the input of the caller and the outcome of the last call of each *)
(* operation on it.                                                        *)
(***************************************************************************)
VARIABLES type, dimensions, validation, testValidation, area, calculation,
          conversion, config, store, bus

vars ==
    <<type, dimensions, validation, testValidation, area, calculation,
      conversion, config, store, bus>>

NotCalled ==
    [outcome |-> "none", isValid |-> FALSE, errors |-> <<>>, warnings |-> <<>>]

NoValue == [outcome |-> "none", value |-> Undefined]

\* calculation: the last call of one of the other four operations of the
\* calculator, with the density it was given (Undefined when it takes none)
NoCalculation == [op |-> "none", density |-> Undefined, result |-> NoValue]

Calculation(op, density, result) ==
    [op |-> op, density |-> density, result |-> result]

\* conversion: the arguments of the calls of the unit converter (value and
\* type for convert, the mapping given for convertDimensions), the mapping as
\* the last call leaves it, and what the last call returned or threw
NoConversion ==
    [op |-> "none", value |-> Other("undefined"), fromUnit |-> "",
     toUnit |-> "", type |-> "", given |-> <<>>, dimensions |-> <<>>,
     result |-> [outcome |-> "none", message |-> "",
                 value |-> Other("undefined")]]

\* the state of the modules the validator and the calculator do not touch
outside == <<conversion, config, store, bus>>

\* config: the configuration manager, the last call made on it (the getter
\* and its arguments, the object returned, what the same call returned the
\* time before, and how many objects were built before the call), and what
\* each call returned last, with whether clearCache was called since
NoCall ==
    [signature |-> <<"none", "", "">>, value |-> NoObject,
     before |-> [value |-> NoObject, cleared |-> FALSE, called |-> FALSE],
     since |-> 0]

\* new ConfigManager(): an empty cache, no object built yet, no call made
NoConfig ==
    [manager |-> [cache |-> <<>>, built |-> 0], call |-> NoCall,
     returned |-> <<>>]

\* the state after the call with the signature returned `got`
Observed(c, signature, got) ==
    [manager |-> got.manager,
     call |-> [signature |-> signature, value |-> got.value,
               before |-> IF signature \in DOMAIN c.returned
                          THEN c.returned[signature]
                          ELSE NoCall.before,
               since |-> c.manager.built],
     returned |->
        (signature :> [value |-> got.value, cleared |-> FALSE,
                       called |-> TRUE]) @@ c.returned]

\* store: the Map of the component store and the last call made on it
NoStore ==
    [components |-> <<>>, call |-> [op |-> "none", id |-> "", outcome |-> ""]]

\* bus: the Map of the event bus, the subscriptions as the calls of on and
\* off made them (subscribed), and the last call: for emit, the callbacks
\* subscribed to the event when it was made and how often each was invoked
NoBus ==
    [events |-> <<>>, subscribed |-> {},
     call |-> [op |-> "none", event |-> "", callback |-> "", before |-> {},
               invoked |-> [c \in Callbacks |-> 0], outcome |-> ""]]

OutsideIdle ==
    /\ conversion = NoConversion
    /\ config = NoConfig
    /\ store = NoStore
    /\ bus = NoBus

Init ==
    /\ type \in TypeInputs
    /\ dimensions \in DimensionInputs(type)
    /\ validation = NotCalled
    /\ testValidation = NotCalled
    /\ area = NoValue
    /\ calculation = NoCalculation
    /\ OutsideIdle

\* ProfileValidator.validateDimensions(type, dimensions)
ValidateDimensions ==
    /\ validation' = validateDimensions(type, dimensions)
    /\ testValidation' = NotCalled
    /\ area' = NoValue
    /\ calculation' = NoCalculation
    /\ UNCHANGED <<type, dimensions>>
    /\ UNCHANGED outside

\* the test page's ProfileValidator.validateDimensions(type, dimensions)
TestValidateDimensions ==
    /\ testValidation' = testValidateDimensions(type, dimensions)
    /\ validation' = NotCalled
    /\ area' = NoValue
    /\ calculation' = NoCalculation
    /\ UNCHANGED <<type, dimensions>>
    /\ UNCHANGED outside

\* ProfileCalculator.calculateArea(type, dimensions)
CalculateArea ==
    /\ area' = calculateArea(type, dimensions)
    /\ validation' = NotCalled
    /\ testValidation' = NotCalled
    /\ calculation' = NoCalculation
    /\ UNCHANGED <<type, dimensions>>
    /\ UNCHANGED outside

Next == ValidateDimensions \/ TestValidateDimensions \/ CalculateArea

Spec == Init /\ [][Next]_vars

(***************************************************************************)
(* The calculator on its own: the caller submits an input the validator    *)
(* was not asked about and invokes the five operations on it.              *)
(***************************************************************************)
CalculatorInit ==
    /\ type \in TypeInputs
    /\ dimensions \in CalculatorInputs(type)
    /\ validation = NotCalled
    /\ testValidation = NotCalled
    /\ area = NoValue
    /\ calculation = NoCalculation
    /\ OutsideIdle

\* a calculateMomentOfInertiaX that drops the length it does not read from
\* the object it was given
CalculateMomentOfInertiaXInPlace ==
    /\ calculation' = Calculation("calculateMomentOfInertiaX", Undefined,
                                  calculateMomentOfInertiaX(type, dimensions))
    /\ area' = NoValue
    /\ dimensions' = With(dimensions, "length", Undefined)
    /\ UNCHANGED <<type, validation, testValidation>>
    /\ UNCHANGED outside

\* ProfileCalculator.calculateMomentOfInertiaX(type, dimensions)
CalculateMomentOfInertiaX ==
    /\ calculation' = Calculation("calculateMomentOfInertiaX", Undefined,
                                  calculateMomentOfInertiaX(type, dimensions))
    /\ area' = NoValue
    /\ UNCHANGED <<type, dimensions, validation, testValidation>>
    /\ UNCHANGED outside

\* ProfileCalculator.calculateSectionModulusX(type, dimensions)
CalculateSectionModulusX ==
    /\ calculation' = Calculation("calculateSectionModulusX", Undefined,
                                  calculateSectionModulusX(type, dimensions))
    /\ area' = NoValue
    /\ UNCHANGED <<type, dimensions, validation, testValidation>>
    /\ UNCHANGED outside

\* ProfileCalculator.calculateWeightPerLength(type, dimensions, density)
CalculateWeightPerLength ==
    \E density \in DensityInputs :
        /\ calculation' =
              Calculation("calculateWeightPerLength", density,
                          calculateWeightPerLength(type, dimensions, density))
        /\ area' = NoValue
        /\ UNCHANGED <<type, dimensions, validation, testValidation>>
        /\ UNCHANGED outside

\* ProfileCalculator.calculateRadiusOfGyration(type, dimensions)
CalculateRadiusOfGyration ==
    /\ calculation' = Calculation("calculateRadiusOfGyration", Undefined,
                                  calculateRadiusOfGyration(type, dimensions))
    /\ area' = NoValue
    /\ UNCHANGED <<type, dimensions, validation, testValidation>>
    /\ UNCHANGED outside

CalculatorNext ==
    \/ CalculateArea
    \/ CalculateMomentOfInertiaX
    \/ CalculateSectionModulusX
    \/ CalculateWeightPerLength
    \/ CalculateRadiusOfGyration

CalculatorSpec == CalculatorInit /\ [][CalculatorNext]_vars

(***************************************************************************)
(* The unit converter on its own: the caller invokes convert and           *)
(* convertDimensions; the validator and the calculator stay idle.          *)
(***************************************************************************)
calculatorVars ==
    <<type, dimensions, validation, testValidation, area, calculation>>

CalculatorIdle ==
    /\ type = ProfileType.ROUND_TUBE
    /\ dimensions = testProfiles[type]
    /\ validation = NotCalled
    /\ testValidation = NotCalled
    /\ area = NoValue
    /\ calculation = NoCalculation

\* no module has been called
Idle == CalculatorIdle /\ OutsideIdle

\* the arguments of the calls: a value, two unit symbols and a unit kind
\* for convert, or a mapping and two unit symbols for convertDimensions
ConverterInit ==
    /\ CalculatorIdle
    /\ \E fromUnit \in UnitInputs, toUnit \in UnitInputs :
          \/ \E value \in ValueInputs, kind \in KindInputs :
                conversion =
                    [NoConversion EXCEPT !.value = value,
                                         !.fromUnit = fromUnit,
                                         !.toUnit = toUnit, !.type = kind]
          \/ \E given \in MappingInputs :
                conversion =
                    [NoConversion EXCEPT !.fromUnit = fromUnit,
                                         !.toUnit = toUnit,
                                         !.type = UnitType.LENGTH,
                                         !.given = given,
                                         !.dimensions = given]
    /\ config = NoConfig
    /\ store = NoStore
    /\ bus = NoBus

\* UnitConverter.convert(value, fromUnit, toUnit, type)
Convert ==
    /\ conversion' =
          [conversion EXCEPT
              !.op = "convert",
              !.result = convert(conversion.value, conversion.fromUnit,
                                 conversion.toUnit, conversion.type)]
    /\ UNCHANGED <<calculatorVars, config, store, bus>>

\* UnitConverter.convertDimensions(dimensions, fromUnit, toUnit)
ConvertDimensions ==
    LET call == convertDimensions(conversion.dimensions, conversion.fromUnit,
                                  conversion.toUnit)
    IN  /\ conversion' =
              [conversion EXCEPT !.op = "convertDimensions",
                                 !.dimensions = call.dimensions,
                                 !.result = call.result]
        /\ UNCHANGED <<calculatorVars, config, store, bus>>

ConverterNext == Convert \/ ConvertDimensions

ConverterSpec == ConverterInit /\ [][ConverterNext]_vars

(***************************************************************************)
(* The configuration manager on its own: the caller invokes the three      *)
(* cached getters and clearCache in any order.                             *)
(***************************************************************************)

\* configManager.getProfileValidation(profileType)
GetProfileValidation ==
    \E profileType \in ConfigArguments.profileType :
        LET got == getProfileValidation(config.manager, profileType)
        IN  /\ got.manager.built <= MaxBuilt
            /\ config' = Observed(config, <<"getProfileValidation",
                                            profileType, "">>, got)
            /\ UNCHANGED <<calculatorVars, conversion, store, bus>>

\* configManager.getMaterialProperties(materialType, grade)
GetMaterialProperties ==
    \E material \in ConfigArguments.material :
        LET got == getMaterialProperties(config.manager, material[1],
                                         material[2])
        IN  /\ got.manager.built <= MaxBuilt
            /\ config' = Observed(config, <<"getMaterialProperties",
                                            material[1], material[2]>>, got)
            /\ UNCHANGED <<calculatorVars, conversion, store, bus>>

\* configManager.getThemeConfig(theme)
GetThemeConfig ==
    \E theme \in ConfigArguments.theme :
        LET got == getThemeConfig(config.manager, theme)
        IN  /\ config' = Observed(config, <<"getThemeConfig", theme, "">>,
                                  got)
            /\ UNCHANGED <<calculatorVars, conversion, store, bus>>

\* configManager.clearCache()
ClearCache ==
    /\ config' =
          [manager |-> clearCache(config.manager),
           call |-> [NoCall EXCEPT !.signature = <<"clearCache", "", "">>,
                                   !.since = config.manager.built],
           returned |->
              [signature \in DOMAIN config.returned |->
                  [config.returned[signature] EXCEPT !.cleared = TRUE]]]
    /\ UNCHANGED <<calculatorVars, conversion, store, bus>>

ConfigNext ==
    \/ GetProfileValidation
    \/ GetMaterialProperties
    \/ GetThemeConfig
    \/ ClearCache

ConfigSpec == Idle /\ [][ConfigNext]_vars

(***************************************************************************)
(* The component store on its own: the caller invokes createComponent,     *)
(* updateComponent and deleteComponent in any order.                       *)
(***************************************************************************)

\* componentStore.createComponent(data)
CreateComponent ==
    \E data \in ComponentData :
        LET created == createComponent(store.components, data)
        IN  /\ store' =
                  [components |-> created.components,
                   call |-> [op |-> "createComponent", id |-> data.id,
                             outcome |-> created.outcome]]
            /\ UNCHANGED <<calculatorVars, conversion, config, bus>>

\* componentStore.updateComponent(id, updates)
UpdateComponent ==
    \E id \in ComponentIds, updates \in ComponentUpdates :
        LET updated == updateComponent(store.components, id, updates)
        IN  /\ store' =
                  [components |-> updated.components,
                   call |-> [op |-> "updateComponent", id |-> id,
                             outcome |-> updated.outcome]]
            /\ UNCHANGED <<calculatorVars, conversion, config, bus>>

\* componentStore.deleteComponent(id); the objects that left the Map are
\* dropped when the call is over
DeleteComponent ==
    \E id \in ComponentIds :
        LET deleted ==
                deleteComponent([objects |-> store.components,
                                 present |-> DOMAIN store.components], id, {})
        IN  /\ store' =
                  [components |->
                      [c \in deleted.heap.present |-> deleted.heap.objects[c]],
                   call |-> [op |-> "deleteComponent", id |-> id,
                             outcome |-> deleted.outcome]]
            /\ UNCHANGED <<calculatorVars, conversion, config, bus>>

StoreNext == CreateComponent \/ UpdateComponent \/ DeleteComponent

StoreSpec == Idle /\ [][StoreNext]_vars

(***************************************************************************)
(* The event bus on its own: the caller subscribes and unsubscribes the    *)
(* callbacks and emits the events in any order.                            *)
(***************************************************************************)
\* eventBus.on(event, callback)
On ==
    \E event \in Range(Events), callback \in Callbacks :
        /\ bus' =
              [events |-> on(bus.events, event, callback),
               subscribed |-> bus.subscribed \cup {<<event, callback>>},
               call |-> [NoBus.call EXCEPT !.op = "on", !.event = event,
                                           !.callback = callback]]
        /\ UNCHANGED <<calculatorVars, conversion, config, store>>

\* eventBus.off(event, callback), or the call of the function that
\* on(event, callback) returned
Off ==
    \E event \in Range(Events), callback \in Callbacks :
        /\ bus' =
              [events |-> off(bus.events, event, callback),
               subscribed |-> bus.subscribed \ {<<event, callback>>},
               call |-> [NoBus.call EXCEPT !.op = "off", !.event = event,
                                           !.callback = callback]]
        /\ UNCHANGED <<calculatorVars, conversion, config, store>>

\* eventBus.emit(event, data)
Emit ==
    \E event \in Range(Events) :
        LET emitted == emit(bus.events, event)
        IN  /\ bus' =
                  [events |-> emitted.events,
                   subscribed |->
                      IF emitted.invoked["canceller"] > 0
                      THEN bus.subscribed \ {<<Events.FILE_LOADED, "listener">>}
                      ELSE bus.subscribed,
                   call |-> [op |-> "emit", event |-> event, callback |-> "",
                             before |-> {c \in Callbacks :
                                            <<event, c>> \in bus.subscribed},
                             invoked |-> emitted.invoked,
                             outcome |-> emitted.outcome]]
            /\ UNCHANGED <<calculatorVars, conversion, config, store>>

BusNext == On \/ Off \/ Emit

BusSpec == Idle /\ [][BusNext]_vars

(***************************************************************************)
(* Properties.                                                             *)
(***************************************************************************)
\* the validation results present in the state: the outcome of the call of
\* validateDimensions (of the module or of the test page) made on the input
Calls == {r \in {validation, testValidation} : r.outcome # "none"}

Recognized == type \in ProfileTypeValues

Required == Range(RequiredDimensions[type])

Optional == Range(OptionalDimensions[type])

JsGt(a, b) == JsLt(b, a)

\* a number greater than 0
Positive(v) == TypeofNumber(v) /\ JsGt(v, Num(0))

\* a positive finite number
PositiveFinite(v) == v.k = "finite" /\ v.num > 0

RequiredMessages ==
    {"Missing required dimension", "Invalid value: must be a positive number"}

GeometricMessages ==
    {"Thickness must be less than radius",
     "Thickness must be less than half of the smallest dimension",
     "Thickness must be less than half of width",
     "Thickness must be less than width and height"}

Count(r, e) == Cardinality({i \in DOMAIN r.errors : r.errors[i] = e})

ErrorNaming(r, name) == \E i \in DOMAIN r.errors : r.errors[i].arg = name

WarningNaming(r, name) == \E i \in DOMAIN r.warnings : r.warnings[i].arg = name

GeometricError(r) == \E i \in DOMAIN r.errors : r.errors[i].msg \in GeometricMessages

Rejected(r) == r.outcome = "returned" /\ ~r.isValid

\* some validateDimensions of the repository accepts the input
PassesValidation ==
    \E r \in {validateDimensions(type, dimensions),
              testValidateDimensions(type, dimensions)} :
        r.outcome = "returned" /\ r.isValid

\* C1: for every supported profile type and every dimension set that the
\* validator accepts (isValid = true), calculateArea is strictly positive.
C1_AreaPositiveWhenValid ==
    (Recognized /\ area.outcome # "none" /\ PassesValidation)
        => (area.outcome = "returned" /\ JsGt(area.value, Num(0)))

\* C2: for each of the six profile types, a dimension set whose required
\* dimensions are all positive numbers and that satisfies the type's geometric
\* predicate is accepted: isValid = true and no errors.
C2_WellFormedAccepted ==
    \A r \in Calls :
        (/\ Recognized
         /\ \A name \in Required :
                name \in DOMAIN dimensions /\ Positive(dimensions[name])
         /\ ProfileValidation(type, dimensions))
            => (r.outcome = "returned" /\ r.isValid /\ r.errors = <<>>)

\* C3: for a type that is none of the six values, validateDimensions returns
\* (does not throw) isValid = false with exactly one error, naming the type,
\* and evaluates no other rule.
C3_UnknownTypeShortCircuits ==
    \A r \in Calls : ~Recognized => r = InvalidType(type)

\* C4: for a recognized type, every absent required dimension makes the
\* result invalid with one 'Missing required dimension' error naming it.
C4_MissingRequiredReported ==
    \A r \in Calls :
        Recognized =>
            \A name \in Required \ DOMAIN dimensions :
                /\ Rejected(r)
                /\ Count(r, Message("Missing required dimension", name)) = 1

\* C5: for a recognized type, every required dimension that is present but
\* not a positive finite number makes the result invalid with an error for
\* that dimension.
C5_NonPositiveRequiredReported ==
    \A r \in Calls :
        Recognized =>
            \A name \in Required \cap DOMAIN dimensions :
                ~PositiveFinite(dimensions[name])
                    => (Rejected(r) /\ ErrorNaming(r, name))

\* C6: for round_tube, thickness >= diameter/2 makes the result invalid with
\* the thickness-constraint error, and thickness < diameter/2 adds no such
\* error.
C6_RoundTubeThickness ==
    \A r \in Calls :
        type = ProfileType.ROUND_TUBE =>
            LET thickness == Get(dimensions, "thickness")
                radius == JsDiv(Get(dimensions, "diameter"), Num(2))
            IN  /\ r.outcome = "returned"
                /\ JsGe(thickness, radius)
                       => (~r.isValid
                           /\ Count(r, Message("Thickness must be less than radius",
                                               "")) = 1)
                /\ JsLt(thickness, radius) => ~GeometricError(r)

\* C7: for square_tube with exactly its required dimensions supplied,
\* thickness >= width/2 makes the result invalid with a thickness-constraint
\* error.
C7_SquareTubeThickness ==
    \A r \in Calls :
        (/\ type = ProfileType.SQUARE_TUBE
         /\ DOMAIN dimensions = Required
         /\ JsGe(Get(dimensions, "thickness"),
                 JsDiv(Get(dimensions, "width"), Num(2))))
            => (Rejected(r) /\ GeometricError(r))

\* the number v lies outside the {min, max} range the registry gives for name
OutOfRange(name, v) ==
    /\ TypeofNumber(v)
    /\ \/ JsLt(v, DimensionValidation[name].min)
       \/ JsGt(v, DimensionValidation[name].max)

\* C8: for every recognized type, a (required) dimension whose value lies
\* outside the registry's range for its name is reported as an error, so the
\* result is invalid.
C8_OutOfRangeReported ==
    \A r \in Calls :
        Recognized =>
            \A name \in Required \cap DOMAIN dimensions :
                OutOfRange(name, dimensions[name])
                    => (Rejected(r) /\ ErrorNaming(r, name))

\* the objects that agree with o on every property that is not optional
RECURSIVE OptionalVariants(_, _)
OptionalVariants(names, objs) ==
    IF names = {} THEN objs
    ELSE LET name == CHOOSE n \in names : TRUE
         IN  OptionalVariants(names \ {name},
                 {With(o, name, v) : o \in objs,
                      v \in OptionalValues \cup {Undefined}})

SameVerdict(r, q) ==
    r.outcome = q.outcome /\ r.isValid = q.isValid /\ r.errors = q.errors

\* C9: an optional dimension present with a negative or non-numeric value
\* adds a warning and no error, and two dimension sets that differ only in
\* optional dimensions get the same isValid and the same errors.
C9_OptionalOnlyWarns ==
    Recognized =>
        /\ \A r \in Calls :
               /\ r.outcome = "returned"
               /\ \A name \in Optional \cap DOMAIN dimensions :
                      (~TypeofNumber(dimensions[name])
                       \/ JsLt(dimensions[name], Num(0)))
                          => (WarningNaming(r, name) /\ ~ErrorNaming(r, name))
        /\ \A o \in OptionalVariants(Optional, {dimensions}) :
               /\ validation.outcome # "none"
                      => SameVerdict(validation, validateDimensions(type, o))
               /\ testValidation.outcome # "none"
                      => SameVerdict(testValidation,
                                     testValidateDimensions(type, o))

\* the required dimensions that are absent or not a positive finite number
Failing ==
    SelectSeq(RequiredDimensions[type],
              LAMBDA name : \/ name \notin DOMAIN dimensions
                            \/ ~PositiveFinite(dimensions[name]))

\* the constraint the specification tabulates for the type is violated
ConstraintViolated ==
    LET thickness == Get(dimensions, "thickness")
        width == Get(dimensions, "width")
        height == Get(dimensions, "height")
    IN  CASE type = ProfileType.ROUND_TUBE ->
                JsGe(thickness, JsDiv(Get(dimensions, "diameter"), Num(2)))
          [] type = ProfileType.SQUARE_TUBE ->
                JsGe(thickness, JsDiv(width, Num(2)))
          [] type = ProfileType.RECTANGULAR_TUBE ->
                JsGe(thickness, JsDiv(MathMin(width, height), Num(2)))
          [] type = ProfileType.ANGLE ->
                JsGe(thickness, MathMin(width, height))
          [] OTHER -> FALSE

\* C10: for a recognized type the errors list holds one entry per failing
\* required dimension, in the order of the type's required-dimension list,
\* followed by the geometric error when the constraint is violated (so no
\* geometric error precedes a required-dimension error).
C10_ErrorsInDiscoveryOrder ==
    \A r \in Calls :
        Recognized =>
            /\ r.outcome = "returned"
            /\ Len(r.errors) = Len(Failing) + (IF ConstraintViolated THEN 1 ELSE 0)
            /\ \A i \in 1 .. Len(Failing) :
                   /\ r.errors[i].arg = Failing[i]
                   /\ r.errors[i].msg \in RequiredMessages
            /\ ConstraintViolated
                   => r.errors[Len(r.errors)].msg \in GeometricMessages

(***************************************************************************)
(* Properties of the calculator (CalculatorSpec).                          *)
(***************************************************************************)
\* the outcomes of the calculator calls present in the state
Outcomes ==
    {r \in {area, calculation.result} : r.outcome # "none"}

\* C11: for a type that is none of the six profile types, each of
\* calculateArea, calculateMomentOfInertiaX, calculateSectionModulusX,
\* calculateWeightPerLength and calculateRadiusOfGyration throws
\* 'Unsupported profile type' and returns no result, whatever the dimensions
\* (and the density).
C11_UnsupportedTypeThrows ==
    ~Recognized => \A r \in Outcomes : r = Unsupported

\* a weight was asked for a type that is none of the six, with dimensions
\* present, and the call threw
C11_Witness ==
    /\ ~Recognized
    /\ dimensions # <<>>
    /\ calculation.op = "calculateWeightPerLength"
    /\ calculation.density = Num(7850)
    /\ calculation.result.outcome = "Error"

\* the six profile types but the round tube
Polygonal == ProfileTypeValues \ {ProfileType.ROUND_TUBE}

\* the dimensions calculateArea reads for a polygonal type
AreaReads ==
    CASE type = ProfileType.SQUARE_TUBE -> {"width", "thickness"}
      [] type = ProfileType.CHANNEL -> {"height", "thickness", "flange_width"}
      [] type = ProfileType.I_BEAM ->
            {"height", "width", "web_thickness", "flange_thickness"}
      [] OTHER -> {"width", "height", "thickness"}

\* every dimension named is a whole number
Whole(names) ==
    \A name \in names :
        Get(dimensions, name).k = "finite" /\ Get(dimensions, name).den = 1

\* the whole number the dimension is
Mm(name) == Get(dimensions, name).num

\* the closed forms of the area, on whole numbers
ClosedFormArea ==
    CASE type = ProfileType.SQUARE_TUBE ->
            Mm("width") * Mm("width")
                - (Mm("width") - 2 * Mm("thickness"))
                    * (Mm("width") - 2 * Mm("thickness"))
      [] type = ProfileType.RECTANGULAR_TUBE ->
            Mm("width") * Mm("height")
                - (Mm("width") - 2 * Mm("thickness"))
                    * (Mm("height") - 2 * Mm("thickness"))
      [] type = ProfileType.ANGLE ->
            (Mm("width") + Mm("height") - Mm("thickness")) * Mm("thickness")
      [] type = ProfileType.CHANNEL ->
            Mm("height") * Mm("thickness")
                + 2 * Mm("flange_width") * Mm("thickness")
      [] type = ProfileType.I_BEAM ->
            Mm("height") * Mm("web_thickness")
                + 2 * Mm("width") * Mm("flange_thickness")

Cube(x) == x * x * x

Fourth(x) == x * x * x * x

\* twelve times the closed forms of the moment of inertia, on whole numbers
\* (calculateMomentOfInertiaX reads the dimensions calculateArea reads)
ClosedFormInertia ==
    CASE type = ProfileType.SQUARE_TUBE ->
            Fourth(Mm("width")) - Fourth(Mm("width") - 2 * Mm("thickness"))
      [] type = ProfileType.RECTANGULAR_TUBE ->
            Mm("width") * Cube(Mm("height"))
                - (Mm("width") - 2 * Mm("thickness"))
                    * Cube(Mm("height") - 2 * Mm("thickness"))
      [] type = ProfileType.CHANNEL ->
            \* t*h^3/12 + 2*(b*t^3/12 + b*t*(h/2)^2)
            Mm("thickness") * Cube(Mm("height"))
                + 2 * (Mm("flange_width") * Cube(Mm("thickness"))
                       + 3 * Mm("flange_width") * Mm("thickness")
                           * Mm("height") * Mm("height"))
      [] type = ProfileType.I_BEAM ->
            \* tw*(h - 2tf)^3/12 + 2*(b*tf^3/12 + b*tf*(h/2 - tf/2)^2)
            Mm("web_thickness")
                    * Cube(Mm("height") - 2 * Mm("flange_thickness"))
                + 2 * (Mm("width") * Cube(Mm("flange_thickness"))
                       + 3 * Mm("width") * Mm("flange_thickness")
                           * (Mm("height") - Mm("flange_thickness"))
                           * (Mm("height") - Mm("flange_thickness")))

AngleCentroid ==
    JsDiv(Rat(Mm("height") * Mm("thickness") * Mm("height")
                  + Mm("width") * Mm("thickness") * Mm("thickness"), 2),
          Num((Mm("width") + Mm("height") - Mm("thickness")) * Mm("thickness")))

\* own-centroid inertia of a leg plus its area times the squared distance of
\* its centroid (at the height at) to the section centroid
LegInertia(base, depth, at) ==
    JsAdd(Rat(base * Cube(depth), 12),
          JsMul(Num(base * depth), MathPow(JsSub(at, AngleCentroid), 2)))

\* (t*h^3/12 + h*t*(h/2 - y)^2) + (b*t^3/12 + b*t*(t/2 - y)^2)
ParallelAxisSum ==
    JsAdd(LegInertia(Mm("thickness"), Mm("height"), Rat(Mm("height"), 2)),
          LegInertia(Mm("width"), Mm("thickness"), Rat(Mm("thickness"), 2)))

\* C14: for an angle calculateMomentOfInertiaX returns the parallel-axis sum
\* over the two legs, (t*h^3/12 + h*t*(h/2 - y)^2) + (b*t^3/12 +
\* b*t*(t/2 - y)^2), y the first-moment centroid of the legs.  Stated for
\* the dimension sets whose dimensions read are numbers.
C14_AngleParallelAxis ==
    (/\ type = ProfileType.ANGLE
     /\ calculation.op = "calculateMomentOfInertiaX"
     /\ Whole(AreaReads))
        => calculation.result = Returned(ParallelAxisSum)

\* y_max: diameter/2 for a round tube, width/2 for a square tube, height/2
\* for a rectangular tube, a channel and an I-beam, and for an angle
\* max(height - y, y), y the centroid calculateMomentOfInertiaX uses
ExtremeFibre ==
    CASE type = ProfileType.ROUND_TUBE ->
            JsDiv(Get(dimensions, "diameter"), Num(2))
      [] type = ProfileType.SQUARE_TUBE ->
            JsDiv(Get(dimensions, "width"), Num(2))
      [] type = ProfileType.ANGLE ->
            MathMax(JsSub(Get(dimensions, "height"), yc(type, dimensions)),
                    yc(type, dimensions))
      [] OTHER -> JsDiv(Get(dimensions, "height"), Num(2))

\* C15: calculateSectionModulusX returns calculateMomentOfInertiaX divided
\* by y_max: diameter/2 (round tube), width/2 (square tube), height/2
\* (rectangular tube, channel, I-beam), and for an angle max(height - y, y)
\* with y exactly the centroid calculateMomentOfInertiaX uses for the same
\* dimensions.
C15_SectionModulus ==
    (Recognized /\ calculation.op = "calculateSectionModulusX")
        => calculation.result =
             Returned(JsDiv(calculateMomentOfInertiaX(type, dimensions).value,
                            ExtremeFibre))

\* the section modulus of an angle with unequal legs was calculated and is a
\* finite number
C15_Witness ==
    /\ type = ProfileType.ANGLE
    /\ Whole(AreaReads)
    /\ Mm("height") = 3
    /\ Mm("width") = 2
    /\ Mm("thickness") = 1
    /\ calculation.op = "calculateSectionModulusX"
    /\ calculation.result.outcome = "returned"
    /\ calculation.result.value.k = "finite"

\* the input is the section of the test page for its type
Reference(profile) ==
    type = profile /\ dimensions = testProfiles[profile]

\* the area was calculated and assertClose(area, expected) returns
AreaClose(expected) ==
    area.outcome # "none"
        => area.outcome = "returned" /\ assertClose(area.value, 1, expected)

\* the operation op was called and assertClose(result, expected) returns
ResultClose(op, expected) ==
    calculation.op = op
        => /\ calculation.result.outcome = "returned"
           /\ assertClose(calculation.result.value, 1, expected)

C17_AngleReference ==
    Reference(ProfileType.ANGLE)
        => /\ AreaClose(Decimal(1536, 0))
           /\ ResultClose("calculateMomentOfInertiaX", Decimal(147456, 0))

ResultNear(op, factor, expected) ==
    calculation.op = op
        => /\ calculation.result.outcome = "returned"
           /\ ~assertCloseThrows(calculation.result.value, factor, expected)

SteelWeight ==
    /\ Reference(ProfileType.ROUND_TUBE)
    /\ calculation.op = "calculateWeightPerLength"
    /\ calculation.density = Num(7850)

CallKeepsInput ==
    /\ type' = type
    /\ dimensions' = dimensions
    /\ validation' = NotCalled
    /\ testValidation' = NotCalled

\* a call made again, whatever was left in the state by the calls before it,
\* returns what it returned before
CallRepeats ==
    /\ (area.outcome # "none" /\ area'.outcome # "none") => area' = area
    /\ (/\ calculation.op # "none"
        /\ calculation'.op = calculation.op
        /\ calculation'.density = calculation.density)
            => calculation' = calculation

NonNegativeReal(v) == v.k \in {"finite", "root"} /\ v.num >= 0

\* C26: for every supported profile type and every dimension set that
\* passes validation, calculateMomentOfInertiaX is strictly positive, and
\* calculateRadiusOfGyration = sqrt(I_x / Area) is a defined non-negative
\* real number (no root of a negative quantity, no division by zero).
C26_InertiaPositiveWhenValid ==
    (Recognized /\ PassesValidation)
        => /\ calculation.op = "calculateMomentOfInertiaX"
                => /\ calculation.result.outcome = "returned"
                   /\ JsGt(calculation.result.value, Num(0))
           /\ calculation.op = "calculateRadiusOfGyration"
                => /\ calculation.result.outcome = "returned"
                   /\ NonNegativeReal(calculation.result.value)


(***************************************************************************)
(* The unit converter.                                                     *)
(***************************************************************************)
\* the unit kind is one of the four and both unit symbols are entries of
\* the factor table of that kind
KnownUnits ==
    /\ conversion.type \in UnitTypeValues
    /\ conversion.fromUnit \in DOMAIN ConversionFactors[conversion.type]
    /\ conversion.toUnit \in DOMAIN ConversionFactors[conversion.type]

\* a and b are the same number
SameNumber(a, b) ==
    /\ QNumber(a) /\ QNumber(b)
    /\ a.k = b.k
    /\ a.k = "finite" =>
          /\ a.neg = b.neg
          /\ BigMul(a.num, b.den) = BigMul(b.num, a.den)

\* q times the factor of the unit in the table of the kind of the call
TimesFactor(q, unit) ==
    LET factor == ConversionFactors[conversion.type][unit]
    IN  IF q.k = "finite"
        THEN Quantity(q.neg, BigMul(q.num, factor.num),
                      BigMul(q.den, factor.den))
        ELSE q

\* the call convert(value, fromUnit, toUnit, type) was made
Converts(value, fromUnit, toUnit, kind) ==
    /\ conversion.op = "convert"
    /\ conversion.value = value
    /\ conversion.fromUnit = fromUnit
    /\ conversion.toUnit = toUnit
    /\ conversion.type = kind

\* C22: for every unit kind and every pair of unit symbols of its factor
\* table, convert(value, from, to, kind) returns value * factor[from] /
\* factor[to] (the value returned times factor[to] is the value given times
\* factor[from], NaN for what is not a number); convert(1000, 'mm', 'm',
\* 'length') = 1, convert(1, 'm', 'mm', 'length') = 1000 and
\* convert(1, 'in', 'mm', 'length') = 25.4
C22_ConvertByFactors ==
    /\ (conversion.op = "convert" /\ KnownUnits) =>
          /\ conversion.result.outcome = "returned"
          /\ SameNumber(TimesFactor(conversion.result.value, conversion.toUnit),
                        TimesFactor(QToNumber(conversion.value),
                                    conversion.fromUnit))
    /\ Converts(Exact(1000), "mm", "m", "length") =>
          SameNumber(conversion.result.value, Exact(1))
    /\ Converts(Exact(1), "m", "mm", "length") =>
          SameNumber(conversion.result.value, Exact(1000))
    /\ Converts(Exact(1), "in", "mm", "length") =>
          SameNumber(conversion.result.value, Literal(<<2, 5, 4>>, 1))

C22_Witness ==
    /\ Converts(Exact(1), "in", "mm", "length")
    /\ conversion.result.outcome = "returned"


\* C23: convert(value, from, to, kind) throws an error whenever kind is not
\* one of length, weight, area and volume or one of the two unit symbols is
\* not an entry of the factor table of that kind; it returns no value then
C23_UnknownUnitThrows ==
    (conversion.op = "convert" /\ ~KnownUnits) =>
        conversion.result.outcome = "Error"

\* the call convert(v, fromUnit, toUnit, 'length') with the units of the
\* call of convertDimensions
ConvertLength(v) ==
    convert(v, conversion.fromUnit, conversion.toUnit, UnitType.LENGTH)

\* C24: convertDimensions(dimensions, from, to) leaves the mapping it was
\* given as it was; when it returns, it returns a mapping with exactly the
\* keys given in which every number v is replaced by what
\* convert(v, from, to, 'length') returns and every other value is kept; it
\* returns unless convert throws for one of the numbers, and always when
\* both units are entries of the length table
C24_ConvertDimensionsCopies ==
    conversion.op = "convertDimensions" =>
        LET given == conversion.given
            result == conversion.result
            numbers == {key \in DOMAIN given : QNumber(given[key])}
        IN  /\ conversion.dimensions = given
            /\ result.outcome = "returned" =>
                  /\ DOMAIN result.value = DOMAIN given
                  /\ \A key \in numbers :
                        ConvertLength(given[key]) = Converted(result.value[key])
                  /\ \A key \in DOMAIN given \ numbers :
                        result.value[key] = given[key]
            /\ result.outcome # "returned" <=>
                  \E key \in numbers :
                      ConvertLength(given[key]).outcome # "returned"
            /\ KnownUnits => result.outcome = "returned"

C24_Witness ==
    /\ conversion.op = "convertDimensions"
    /\ conversion.fromUnit = "mm"
    /\ conversion.toUnit = "cm"
    /\ DOMAIN conversion.given = {"width", "height", "thickness"}
    /\ conversion.result.outcome = "returned"
    /\ conversion.result.value.height = Other("string")
    /\ SameNumber(conversion.result.value.width, Exact(10))


(***************************************************************************)
(* The configuration manager.                                              *)
(***************************************************************************)
\* the last call is a call of the getter, made before with the same
\* arguments (for getThemeConfig: of a theme of ThemeConfig)
Repeats(getter) ==
    /\ config.call.signature[1] = getter
    /\ config.call.before.called
    /\ getter = "getThemeConfig" =>
          config.call.signature[2] \in DOMAIN ThemeConfig

\* the last call returned the object the same call returned the time before
SameObject == config.call.value = config.call.before.value

\* the last call returned an object that it built
NewlyBuilt == config.call.value.built > config.call.since

\* the getter returns the same object while clearCache is not called, and
\* an object newly built after it was
Cache(getter) ==
    Repeats(getter) =>
        IF config.call.before.cleared THEN ~SameObject /\ NewlyBuilt
        ELSE SameObject

\* C25: getProfileValidation(type) returns the identical object on every
\* call with the same type while no clearCache() intervenes, and the first
\* call after clearCache() returns a newly built object distinct from the
\* one returned before; the same for getMaterialProperties and, for the
\* themes of ThemeConfig, for getThemeConfig
C25_CachedUntilCleared ==
    /\ Cache("getProfileValidation")
    /\ Cache("getMaterialProperties")
    /\ Cache("getThemeConfig")

\* C25, as the code has it: getProfileValidation and getMaterialProperties
\* return the identical object while no clearCache() intervenes and a newly
\* built, distinct object on the first call after clearCache();
\* getThemeConfig returns, for a theme of ThemeConfig, the object of the
\* registry itself on every call, before and after clearCache()
C25_CachedUntilClearedThemeShared ==
    /\ Cache("getProfileValidation")
    /\ Cache("getMaterialProperties")
    /\ Repeats("getThemeConfig") =>
          /\ SameObject
          /\ config.call.value = ThemeConfig[config.call.signature[2]]

C25_Witness ==
    /\ Repeats("getProfileValidation")
    /\ config.call.before.cleared
    /\ \E signature \in DOMAIN config.returned :
          /\ signature[1] = "getThemeConfig"
          /\ config.returned[signature].value = ThemeConfig.light
          /\ config.returned[signature].cleared


(***************************************************************************)
(* The component store.                                                    *)
(***************************************************************************)
\* the step is a call of updateComponent on a stored component that
\* returned null
UpdateRejected ==
    /\ store'.call.op = "updateComponent"
    /\ store'.call.outcome = "null"
    /\ store'.call.id \in DOMAIN store.components

\* every component in the store passes its own validate()
StoredValid ==
    \A id \in DOMAIN store.components : validate(store.components[id])

\* C27: when updateComponent returns null because the updated component
\* fails validation, the component held in the store is left exactly as it
\* was before the call; after any sequence of create, update and delete
\* calls every component in the store passes its own validate()
C27_RejectedUpdateKeepsEntity ==
    /\ [][UpdateRejected => store'.components = store.components]_vars
    /\ []StoredValid

\* the ids listed, transitively, in the children set of the component id
RECURSIVE Descendants(_, _, _)
Descendants(components, ids, seen) ==
    LET listed ==
            UNION {Range(components[id].children) :
                      id \in ids \cap DOMAIN components}
    IN  IF listed \subseteq seen THEN seen
        ELSE Descendants(components, listed \ seen, seen \cup listed)

\* C28: after deleteComponent(id) returns true, the store contains neither
\* id nor any component listed (transitively) in the children set it had,
\* and no component remaining in the store has id in its children set
C28_DeleteRemovesSubtree ==
    [][(store'.call.op = "deleteComponent" /\ store'.call.outcome = "true") =>
          LET id == store'.call.id
              remaining == store'.components
          IN  /\ id \notin DOMAIN remaining
              /\ Descendants(store.components, {id}, {})
                    \cap DOMAIN remaining = {}
              /\ \A c \in DOMAIN remaining :
                    id \notin Range(remaining[c].children)]_vars

\* C29: deleteComponent(id) terminates: it returns true or false, in every
\* store state that calls of createComponent, updateComponent and
\* deleteComponent reach
C29_DeleteTerminates ==
    store.call.op = "deleteComponent" =>
        store.call.outcome \in {"true", "false"}


(***************************************************************************)
(* The event bus.                                                          *)
(***************************************************************************)
\* C30: emit(event, data) returns, whatever the callbacks throw, after it
\* invoked exactly once every callback subscribed to the event when it was
\* called, however often the callback was registered, and no callback that
\* was not subscribed then (one that off() or the function returned by on()
\* removed is not invoked)
C30_EmitInvokesSubscribersOnce ==
    bus.call.op = "emit" =>
        /\ bus.call.outcome = "returned"
        /\ \A c \in Callbacks :
              bus.call.invoked[c] = IF c \in bus.call.before THEN 1 ELSE 0

=============================================================================
